---- MODULE Spec2Model ----
(***************************************************************************)
(* A model of src/index.js: an Express application that receives GitHub    *)
(* "projects_v2_item" webhooks, verifies their signature, filters them,    *)
(* resolves the linked issue through GraphQL and appends a checklist to    *)
(* the issue body through the REST API.                                    *)
(*                                                                         *)
(* Strings are sequences of tokens (characters for bodies and the          *)
(* checklist, slash-separated pieces for URLs).  Node runs a handler       *)
(* without interruption up to its next `await`: one action is one such     *)
(* run, and the handlers of different requests interleave at the awaits.   *)
(* `reqs` is the bag of the requests received so far, each with the state  *)
(* of its handler: requests have no identity beyond what they carry.       *)
(* `listening` tells whether app.listen has run.                           *)
(***************************************************************************)
EXTENDS Naturals, Sequences, FiniteSets, Bags, TLC

VARIABLES env, checklistFile, issue, reqs, listening

vars == <<env, checklistFile, issue, reqs, listening>>

(* Number of webhook requests delivered in one behaviour. *)
MaxRequests == 2

-----------------------------------------------------------------------------
(* JavaScript values *)

(* `undefined` as the value of an identifier-like field or variable. *)
Undefined == "undefined"

(* `undefined` and `null` where a string is expected; no string of the model *)
(* is made of these single tokens, and `${undefined}` prints as "undefined". *)
UndefinedText == <<"undefined">>

NullText == <<"null">>

(* Truthy with `undefined` taken for a value: only '' is falsy. *)
TruthyUnlessEmpty(v) == v # ""

(* Truthiness of a scalar (`if (contentNodeId)`). *)
Truthy(v) == v \notin {Undefined, ""}

(* TruthyText taking a missing property for a value. *)
TruthyTextUnlessNull(s) == s \notin {NullText, <<>>}

(* Truthiness of a string-valued expression (`issueDetails.url`, `body || ''`). *)
TruthyText(s) == s \notin {UndefinedText, NullText, <<>>}

(* obj[key] of a JavaScript object: undefined when the key is absent. *)
Prop(obj, key) == IF key \in DOMAIN obj THEN obj[key] ELSE Undefined

(* String.prototype.split(sep): the pieces between the separators. *)
RECURSIVE Split(_, _)
Split(s, sep) ==
    IF \A i \in 1..Len(s) : s[i] # sep
    THEN <<s>>
    ELSE LET i == CHOOSE k \in 1..Len(s) :
                      s[k] = sep /\ \A j \in 1..(k - 1) : s[j] # sep
         IN  <<SubSeq(s, 1, i - 1)>> \o Split(SubSeq(s, i + 1, Len(s)), sep)

(* parts[i] (0-based) inside a template literal: "undefined" past the end. *)
Part(parts, i) == IF i < Len(parts) THEN parts[i + 1] ELSE UndefinedText

(* String.prototype.includes *)
Includes(s, t) ==
    \E i \in 0..Len(s) :
        i + Len(t) <= Len(s) /\ SubSeq(s, i + 1, i + Len(t)) = t

-----------------------------------------------------------------------------
(* Program constants *)

CHECKLIST_FILE == "checklist.md"

X_HUB_SIGNATURE_256 == "x-hub-signature-256"

SHA256_HEADER_PREFIX == "sha256="

GITHUB_WEBHOOK_SECRET == env.GITHUB_WEBHOOK_SECRET

GITHUB_TOKEN == env.GITHUB_TOKEN

PROJECT_NODE_ID == env.PROJECT_NODE_ID

-----------------------------------------------------------------------------
(* The environment: process.env, the checklist file, GitHub *)

(* process.env at module load: each value is a string or undefined. *)
Environments ==
    [GITHUB_WEBHOOK_SECRET : {"s3cret", Undefined},
     GITHUB_TOKEN : {"ghp_token", Undefined},
     PROJECT_NODE_ID : {"PVT_target", Undefined}]

(* Contents of checklist.md; the file may also be missing. *)
FileMissing == <<"ENOENT">>

ChecklistFiles == {FileMissing, <<>>, <<"C", "\n", "s">>}

(* The one issue GitHub holds: where it lives, the url its GraphQL node     *)
(* reports, and its body (null when never written).                        *)
IssueOwner == <<"o">>

IssueRepo == <<"r">>

IssueNumber == <<"7">>

HtmlUrl ==
    <<"https:", "/", "/", "github.com", "/">> \o IssueOwner \o <<"/">>
        \o IssueRepo \o <<"/", "issues", "/">> \o IssueNumber

ApiUrl ==
    <<"https:", "/", "/", "api.github.com", "/", "repos", "/">> \o IssueOwner
        \o <<"/">> \o IssueRepo \o <<"/", "issues", "/">> \o IssueNumber

ShortUrl ==
    <<"https:", "/", "/", "github.com", "/">> \o IssueOwner \o <<"/">>
        \o IssueRepo

NodeUrls == {HtmlUrl, ApiUrl, ShortUrl}

InitialBodies == {NullText, <<"H">>, <<"H", "C">>}

(* content_node_id values: the issue's node, a node that is no Issue (a    *)
(* draft item or a pull request), and an id GitHub does not know.          *)
IssueNode == "I_issue"

DraftNode == "DI_draft"

UnknownNode == "X_gone"

-----------------------------------------------------------------------------
(* Inbound requests *)

(* Marks a key left out of an enumerated object; never a value in a state. *)
Absent == "<absent>"

(* The object with the keys of `f` whose value is not Absent. *)
Obj(f) == [k \in {k \in DOMAIN f : f[k] # Absent} |-> f[k]]

OtherProject == "PVT_other"

ItemObjects ==
    {Obj(f) : f \in [project_node_id : {Absent, "PVT_target", OtherProject},
                     content_node_id : {Absent, IssueNode, DraftNode, UnknownNode}]}

(* The parsed payloads (req.body): `action` and `projects_v2_item`, each    *)
(* key present or absent.                                                   *)
Payloads ==
    {[k \in {"action"} |-> a] : a \in {"created", "edited"}}
        \cup {[k \in {"projects_v2_item"} |-> it] : it \in ItemObjects}
        \cup {[k \in {"action", "projects_v2_item"} |->
                  IF k = "action" THEN a ELSE it] :
                  a \in {"created", "edited"}, it \in ItemObjects}
        \cup {[k \in {} |-> Undefined]}

(* The bytes on the wire: a JSON text is its value and its layout (white    *)
(* space, key order, escapes).  JSON.stringify writes one layout only.      *)
Layouts == {"compact", "spaced"}

RawBodies == [layout : Layouts, json : Payloads]

(* bodyParser.json(): req.body is the value of the text. *)
JSONparse(raw) == raw.json

(* JSON.stringify(req.body) *)
JSONstringify(value) == [layout |-> "compact", json |-> value]

(* crypto.createHmac('sha256', key).update(text).digest('hex'): a value     *)
(* that only the same key and the same text produce.                        *)
HmacSha256Hex(key, text) == <<"hmac", key, text>>

(* `${SHA256_HEADER_PREFIX}${hex}` *)
SignatureHeader(key, text) == <<SHA256_HEADER_PREFIX, HmacSha256Hex(key, text)>>

(* The secret GitHub holds for this webhook, and a key it does not hold. *)
SharedSecret == "s3cret"

ForeignKey == "guess"

(* The header sets a request with body `raw` may carry: no signature, the   *)
(* sender's signature of the bytes it sent, a signature of the               *)
(* re-serialised text, a signature under another key.                       *)
HeadersFor(raw) ==
    {[h \in {} |-> Undefined]}
        \cup {[h \in {X_HUB_SIGNATURE_256} |-> sig] :
                 sig \in {SignatureHeader(SharedSecret, raw),
                          SignatureHeader(SharedSecret, JSONstringify(JSONparse(raw))),
                          SignatureHeader(ForeignKey, raw)}}

(* What Express hands to the handler. *)
Request(raw, headers) == [headers |-> headers, body |-> JSONparse(raw)]

-----------------------------------------------------------------------------
(* The handler of one request *)

(* A local variable the handler has not assigned. *)
NotRead == "<not read>"

NoDetails == [unset |-> TRUE]

NullDetails == [null |-> TRUE]

(* No answer from the GraphQL endpoint yet. *)
NoOutcome == [pending |-> TRUE]

(* A string-valued local not assigned yet. *)
NotReadText == <<"<not read>">>

(* A request as it enters the handler.  hasHeader and rawSigned record      *)
(* what was sent (rawSigned: the header is the signature of the exact body  *)
(* under the configured secret); graphql and issueResponse are what GitHub  *)
(* answered; the other fields are the handler's locals, the outbound calls  *)
(* it made, its log lines and the responses it sent.                        *)
Arrived(raw, headers) ==
    [pc |-> "entry",
     hasHeader |-> X_HUB_SIGNATURE_256 \in DOMAIN headers,
     rawSigned |->
         /\ X_HUB_SIGNATURE_256 \in DOMAIN headers
         /\ headers[X_HUB_SIGNATURE_256] =
                SignatureHeader(GITHUB_WEBHOOK_SECRET, raw),
     verified |-> FALSE, projectNodeId |-> NotRead, action |-> NotRead,
     contentNodeId |-> NotRead, graphql |-> NoOutcome,
     issueDetails |-> NoDetails, url |-> NotReadText,
     issueResponse |-> NotReadText, existingBody |-> NotReadText,
     calls |-> <<>>, log |-> <<>>, responses |-> <<>>]

Log(q, line) == [q EXCEPT !.log = Append(@, line)]

(* res.status(status).send(text): the handler returns right after. *)
Respond(q, status, text) ==
    [q EXCEPT !.responses = Append(@, [status |-> status, text |-> text]),
              !.pc = "done"]

Call(q, kind, url, auth, data) ==
    [q EXCEPT !.calls =
        Append(@, [kind |-> kind, url |-> url, auth |-> auth, data |-> data])]

GraphqlUrl == <<"https:", "/", "/", "api.github.com", "/", "graphql">>

(* verifySignature, given that createHmac accepted the key. *)
verifySignature(req) ==
    LET digest ==
            SignatureHeader(GITHUB_WEBHOOK_SECRET, JSONstringify(req.body))
    IN  /\ X_HUB_SIGNATURE_256 \in DOMAIN req.headers
        /\ req.headers[X_HUB_SIGNATURE_256] = digest

(* crypto.createHmac throws a TypeError when the key is undefined. *)
CreateHmacThrows == GITHUB_WEBHOOK_SECRET = Undefined

(* req.body.projects_v2_item?.[key] *)
ItemProp(body, key) ==
    IF "projects_v2_item" \in DOMAIN body
    THEN Prop(body["projects_v2_item"], key)
    ELSE Undefined

(* getIssueDetails up to its await: the GraphQL POST is sent. *)
getIssueDetails(q, contentNodeId) ==
    [Call(q, "graphql", GraphqlUrl, <<"Bearer", GITHUB_TOKEN>>,
          <<contentNodeId>>) EXCEPT !.pc = "graphql"]

(* Filter without its test of `action`. *)
FilterAnyAction(q, req) ==
    LET projectNodeId == ItemProp(req.body, "project_node_id")
        contentNodeId == ItemProp(req.body, "content_node_id")
        action == Prop(req.body, "action")
        q1 == [q EXCEPT !.projectNodeId = projectNodeId]
        q2 == [q1 EXCEPT !.contentNodeId = contentNodeId, !.action = action]
    IN  IF projectNodeId # PROJECT_NODE_ID
        THEN Respond(Log(q1, "project_node_id does not match. No action taken."),
                     200, "No action taken.")
        ELSE IF Truthy(contentNodeId)
        THEN getIssueDetails(Log(q2, "Found content_node_id"), contentNodeId)
        ELSE Respond(Log(q2, "content_node_id not found in the webhook payload"),
                     200, "Webhook received and processed!")

(* The filter of app.post('/webhook'), run on a verified request. *)
Filter(q, req) ==
    LET projectNodeId == ItemProp(req.body, "project_node_id")
        contentNodeId == ItemProp(req.body, "content_node_id")
        action == Prop(req.body, "action")
        q1 == [q EXCEPT !.projectNodeId = projectNodeId]
        q2 == [q1 EXCEPT !.contentNodeId = contentNodeId, !.action = action]
    IN  IF projectNodeId # PROJECT_NODE_ID
        THEN Respond(Log(q1, "project_node_id does not match. No action taken."),
                     200, "No action taken.")
        ELSE IF action # "created"
        THEN Respond(Log(q2, "No action taken because the action is not 'created'"),
                     200, "No action taken for non-created action.")
        ELSE IF Truthy(contentNodeId)
        THEN getIssueDetails(Log(q2, "Found content_node_id"), contentNodeId)
        ELSE Respond(Log(q2, "content_node_id not found in the webhook payload"),
                     200, "Webhook received and processed!")

(* app.post('/webhook') from its entry to its first await or its return; *)
(* q carries what was sent.                                               *)
PostWebhook(q, req) ==
    IF ~verifySignature(req)
    THEN Respond(Log(q, "Signature mismatch!"), 403, "Signature mismatch!")
    ELSE Filter([q EXCEPT !.verified = TRUE], req)

(* When createHmac throws, the async handler's promise rejects: Express 4   *)
(* leaves the request unanswered, Express 5 answers 500.                    *)
Rejected(q) ==
    {[q EXCEPT !.pc = "threw"],
     [q EXCEPT !.pc = "threw",
               !.responses = <<[status |-> 500,
                                text |-> "Internal Server Error"]>>]}

(* The handler states a request with these bytes and headers may be in      *)
(* when the handler first yields.                                           *)
Entry(raw, headers) ==
    IF CreateHmacThrows
    THEN Rejected(Arrived(raw, headers))
    ELSE {PostWebhook(Arrived(raw, headers), Request(raw, headers))}

(* The handler states of all the requests a sender may deliver: every body *)
(* with every header set.                                                   *)
Arrivals ==
    UNION {UNION {Entry(raw, headers) : headers \in HeadersFor(raw)} :
               raw \in RawBodies}

(* The handler of request q moves on to state q2. *)
Step(q, q2) == reqs' = (reqs (-) SetToBag({q})) (+) SetToBag({q2})

(* A POST /webhook arrives and its handler runs to its first await or to    *)
(* its response.                                                            *)
Receive ==
    /\ listening
    /\ BagCardinality(reqs) < MaxRequests
    /\ \E q \in Arrivals : reqs' = reqs (+) SetToBag({q})
    /\ UNCHANGED <<env, checklistFile, issue, listening>>

-----------------------------------------------------------------------------
(* GitHub *)

(* The REST resource of the issue. *)
RestUrl ==
    <<"https:", "/", "/", "api.github.com", "/", "repos", "/">> \o IssueOwner
        \o <<"/">> \o IssueRepo \o <<"/", "issues", "/">> \o IssueNumber

(* What axios.post to the GraphQL endpoint may yield for node `id`: a       *)
(* rejected promise (network failure, or 401 without a token), or           *)
(* response.data with a null node, an empty node (the `... on Issue`        *)
(* fragment does not apply) or the issue's url and body, and with or        *)
(* without an error list (GraphQL may return errors next to partial data).  *)
GraphqlOutcomes(id) ==
    {[threw |-> TRUE]}
        \cup (IF GITHUB_TOKEN = Undefined THEN {}
              ELSE IF id = IssueNode
              THEN {[threw |-> FALSE, errors |-> FALSE, node |-> "issue"]}
              ELSE IF id = DraftNode
              THEN {[threw |-> FALSE, errors |-> FALSE, node |-> "empty"]}
              ELSE {[threw |-> FALSE, errors |-> TRUE, node |-> "null"],
                    [threw |-> FALSE, errors |-> FALSE, node |-> "null"]})
        \cup (IF GITHUB_TOKEN # Undefined /\ id = IssueNode
              THEN {[threw |-> FALSE, errors |-> TRUE, node |-> "issue"]}
              ELSE {})

(* Whether GitHub serves a REST call on `url`: it needs the token and the   *)
(* url of an existing issue.                                                *)
RestServes(url) == GITHUB_TOKEN # Undefined /\ url = RestUrl

-----------------------------------------------------------------------------
(* The handler after its awaits *)

(* IssueDetailsOf without its test of data.errors. *)
IssueDetailsIgnoringErrors(out) ==
    IF out.threw THEN NullDetails
    ELSE IF out.node = "null" THEN NullDetails
    ELSE IF out.node = "empty"
    THEN [url |-> UndefinedText, body |-> UndefinedText]
    ELSE [url |-> issue.url, body |-> issue.body]

(* getIssueDetails after its await: the value it returns. *)
IssueDetailsOf(out) ==
    IF out.threw THEN NullDetails
    ELSE IF out.errors THEN NullDetails
    ELSE IF out.node = "null" THEN NullDetails
    ELSE IF out.node = "empty"
    THEN [url |-> UndefinedText, body |-> UndefinedText]
    ELSE [url |-> issue.url, body |-> issue.body]

(* What getIssueDetails logs for the outcome. *)
IssueDetailsLog(q, out) ==
    IF out.threw THEN Log(q, "Error during GraphQL request:")
    ELSE IF out.errors THEN Log(q, "Error fetching issue details:")
    ELSE q

(* IssueApiUrl taking the issue number one segment early. *)
IssueApiUrlNumberAt5(issueUrl) ==
    LET issueUrlParts == Split(issueUrl, "/")
        owner == Part(issueUrlParts, 3)
        repo == Part(issueUrlParts, 4)
        issueNumber == Part(issueUrlParts, 5)
    IN  <<"https:", "/", "/", "api.github.com", "/", "repos", "/">> \o owner
            \o <<"/">> \o repo \o <<"/", "issues", "/">> \o issueNumber

(* The REST url updateIssueBody builds from the pieces of issueUrl. *)
IssueApiUrl(issueUrl) ==
    LET issueUrlParts == Split(issueUrl, "/")
        owner == Part(issueUrlParts, 3)
        repo == Part(issueUrlParts, 4)
        issueNumber == Part(issueUrlParts, 6)
    IN  <<"https:", "/", "/", "api.github.com", "/", "repos", "/">> \o owner
            \o <<"/">> \o repo \o <<"/", "issues", "/">> \o issueNumber

RestAuth == <<"token", GITHUB_TOKEN>>

(* updateIssueBody up to its first await: the REST GET is sent. *)
updateIssueBody(q, issueUrl) ==
    LET url == IssueApiUrl(issueUrl)
    IN  [Call(Log([q EXCEPT !.url = url], "Updating issue at:"),
              "get", url, RestAuth, <<>>) EXCEPT !.pc = "get"]

(* The end of app.post('/webhook'). *)
Processed(q) == Respond(q, 200, "Webhook received and processed!")

(* The GraphQL POST of request q returns; the handler runs to the REST GET  *)
(* or to its response.                                                      *)
GraphqlReturns(q) ==
    /\ q.pc = "graphql"
    /\ \E out \in GraphqlOutcomes(q.contentNodeId) :
         LET issueDetails == IssueDetailsOf(out)
             q1 == [IssueDetailsLog(q, out) EXCEPT
                       !.graphql = out, !.issueDetails = issueDetails]
         IN  Step(q,
                 IF issueDetails # NullDetails /\ TruthyText(issueDetails.url)
                 THEN updateIssueBody(Log(q1, "Issue URL:"), issueDetails.url)
                 ELSE Processed(Log(q1, "Could not fetch issue details")))
    /\ UNCHANGED <<env, checklistFile, issue, listening>>

(* readChecklist returning an object without content on a read failure. *)
readChecklistBlankOnError ==
    IF checklistFile = FileMissing
    THEN [null |-> FALSE,
          firstLine |-> UndefinedText,
          fullContent |-> UndefinedText]
    ELSE [null |-> FALSE,
          firstLine |-> Split(checklistFile, "\n")[1],
          fullContent |-> checklistFile]

(* readChecklist: null when the file cannot be read. *)
readChecklist ==
    IF checklistFile = FileMissing
    THEN [null |-> TRUE]
    ELSE [null |-> FALSE,
          firstLine |-> Split(checklistFile, "\n")[1],
          fullContent |-> checklistFile]

(* issueResponse.data.body || '' *)
OrEmpty(body) == IF TruthyText(body) THEN body ELSE <<>>

(* UpdatedBody with a single newline between body and checklist. *)
UpdatedBodyOneNewline(existingBody, checklist) ==
    existingBody \o <<"\n">> \o checklist.fullContent

(* `${existingBody}\n\n${checklist.fullContent}` *)
UpdatedBody(existingBody, checklist) ==
    existingBody \o <<"\n", "\n">> \o checklist.fullContent

(* ShouldAppend comparing the whole body with the first line. *)
ShouldAppendUnlessEqual(existingBody, checklist) ==
    ~checklist.null /\ existingBody # checklist.firstLine

(* ShouldAppend without the test of the body. *)
ShouldAppendAlways(existingBody, checklist) == ~checklist.null

(* ShouldAppend holding back while another request's PATCH is in flight. *)
ShouldAppendSingleFlight(existingBody, checklist) ==
    /\ ~checklist.null /\ ~Includes(existingBody, checklist.firstLine)
    /\ \A r \in BagToSet(reqs) : r.pc # "patch"

(* ShouldAppend looking for the first line at the start of the body only. *)
ShouldAppendUnlessStartsWith(existingBody, checklist) ==
    /\ ~checklist.null
    /\ \/ Len(existingBody) < Len(checklist.firstLine)
       \/ SubSeq(existingBody, 1, Len(checklist.firstLine))
              # checklist.firstLine

(* Whether updateIssueBody goes on to the PATCH. *)
ShouldAppend(existingBody, checklist) ==
    ~checklist.null /\ ~Includes(existingBody, checklist.firstLine)

(* AfterGet sending the PATCH without awaiting it. *)
AfterGetNotAwaitingPatch(q, body) ==
    LET existingBody == OrEmpty(body)
        checklist == readChecklist
        q1 == IF checklist.null
              THEN Log(q, "Error reading checklist file:")
              ELSE q
        q2 == [q1 EXCEPT !.issueResponse = body,
                         !.existingBody = existingBody]
    IN  IF ShouldAppend(existingBody, checklist)
        THEN Processed(Call(q2, "patch", q.url, RestAuth,
                            UpdatedBody(existingBody, checklist)))
        ELSE Processed(Log(q2,
                 "Checklist already exists in the issue body, not updating."))

(* AfterGet deciding on the body the GraphQL resolution returned. *)
AfterGetUsingGraphqlBody(q, body) ==
    LET existingBody == OrEmpty(q.issueDetails.body)
        checklist == readChecklist
        q1 == IF checklist.null
              THEN Log(q, "Error reading checklist file:")
              ELSE q
        q2 == [q1 EXCEPT !.issueResponse = body,
                         !.existingBody = existingBody]
    IN  IF ShouldAppend(existingBody, checklist)
        THEN [Call(q2, "patch", q.url, RestAuth,
                   UpdatedBody(existingBody, checklist))
                 EXCEPT !.pc = "patch"]
        ELSE Processed(Log(q2,
                 "Checklist already exists in the issue body, not updating."))

(* updateIssueBody after the GET resolved with `body`. *)
AfterGet(q, body) ==
    LET existingBody == OrEmpty(body)
        checklist == readChecklist
        q1 == IF checklist.null
              THEN Log(q, "Error reading checklist file:")
              ELSE q
        q2 == [q1 EXCEPT !.issueResponse = body,
                         !.existingBody = existingBody]
    IN  IF ShouldAppend(existingBody, checklist)
        THEN [Call(q2, "patch", q.url, RestAuth,
                   UpdatedBody(existingBody, checklist))
                 EXCEPT !.pc = "patch"]
        ELSE Processed(Log(q2,
                 "Checklist already exists in the issue body, not updating."))

(* UpdateFailed with the error thrown on instead of swallowed. *)
UpdateFailedRethrows(q) ==
    [Log(q, "Error updating the issue:") EXCEPT !.pc = "threw"]

(* UpdateFailed sending the GET again instead of giving up. *)
UpdateFailedRetries(q) ==
    [Call(Log(q, "Error updating the issue:"), "get", q.url, RestAuth, <<>>)
        EXCEPT !.pc = "get"]

(* The catch of updateIssueBody, and the handler's response after it. *)
UpdateFailed(q) == Processed(Log(q, "Error updating the issue:"))

(* The REST GET of request q returns. *)
GetReturns(q) ==
    /\ q.pc = "get"
    /\ \E ok \in {b \in BOOLEAN : b => RestServes(q.url)} :
         Step(q, IF ok THEN AfterGet(q, issue.body) ELSE UpdateFailed(q))
    /\ UNCHANGED <<env, checklistFile, issue, listening>>

(* The REST PATCH of request q returns.  GitHub may have applied it even    *)
(* when the call fails (the response is lost).                              *)
PatchReturns(q) ==
    /\ q.pc = "patch"
    /\ \E applied \in {b \in BOOLEAN : b => RestServes(q.url)} :
       \E ok \in {b \in BOOLEAN : b => applied} :
         /\ issue' = IF applied
                     THEN [issue EXCEPT !.body = q.calls[Len(q.calls)].data]
                     ELSE issue
         /\ Step(q, IF ok
                    THEN Processed(Log(q,
                             "Issue updated successfully with checklist!"))
                    ELSE UpdateFailed(q))
    /\ UNCHANGED <<env, checklistFile, listening>>

(* app.get('/'): answers 'GitHub Webhook Receiver' and touches nothing. *)
GetRoot == listening /\ UNCHANGED vars

(* app.listen at the end of the module: the server starts to accept         *)
(* requests whatever process.env held when the module was loaded.           *)
Listen ==
    /\ ~listening
    /\ listening' = TRUE
    /\ UNCHANGED <<env, checklistFile, issue, reqs>>

-----------------------------------------------------------------------------
(* The specification *)

(* Whether a REST call of the handler can reach the issue at all: the      *)
(* handler must verify requests, hold a token, and build the issue's REST   *)
(* url from the url the node reports.                                       *)
UpdateReachable(e, nodeUrl) ==
    /\ e.GITHUB_WEBHOOK_SECRET # Undefined
    /\ e.GITHUB_TOKEN # Undefined
    /\ IssueApiUrl(nodeUrl) = RestUrl

(* `initialBody` is the body the issue had when the server started.  Where  *)
(* no REST call can reach the issue, the handler never reads the body or    *)
(* the checklist file: one body and one file stand for all of them.         *)
Init ==
    /\ env \in Environments
    /\ checklistFile \in ChecklistFiles
    /\ issue \in {[url |-> u, body |-> b, initialBody |-> b] :
                     u \in NodeUrls, b \in InitialBodies}
    /\ UpdateReachable(env, issue.url)
           \/ (checklistFile = <<"C", "\n", "s">> /\ issue.body = <<"H">>)
    /\ reqs = EmptyBag
    /\ listening = FALSE

(* The requests received so far. *)
Requests == BagToSet(reqs)

Next ==
    \/ Listen
    \/ Receive
    \/ \E q \in Requests : GraphqlReturns(q)
    \/ \E q \in Requests : GetReturns(q)
    \/ \E q \in Requests : PatchReturns(q)
    \/ GetRoot

Spec == Init /\ [][Next]_vars

-----------------------------------------------------------------------------
(* Vocabulary of the properties *)

(* The request got exactly one response, with this status. *)
Answered(q, status) ==
    Len(q.responses) = 1 /\ q.responses[1].status = status

CallsOf(q, kind) == SelectSeq(q.calls, LAMBDA c : c.kind = kind)

NoOutboundCall(q) == q.calls = <<>>

(* The text before the first newline. *)
FirstLineOf(text) ==
    LET n == CHOOSE k \in 0..Len(text) :
                 /\ \A i \in 1..k : text[i] # "\n"
                 /\ k = Len(text) \/ text[k + 1] = "\n"
    IN  SubSeq(text, 1, n)

(* The body a REST GET returned, null taken as the empty string. *)
Fetched(q) == IF q.issueResponse = NullText THEN <<>> ELSE q.issueResponse

GetSucceeded(q) == q.issueResponse # NotReadText

ChecklistReadable == checklistFile # FileMissing

(* The body with the checklist appended after a blank line. *)
WithChecklist(body) == body \o <<"\n", "\n">> \o checklistFile

(* Verified, project matched, action 'created'. *)
Qualifies(q) ==
    /\ q.verified
    /\ q.projectNodeId = PROJECT_NODE_ID
    /\ q.action = "created"

Resolved(q) ==
    /\ q.issueDetails \notin {NoDetails, NullDetails}
    /\ TruthyText(q.issueDetails.url)

-----------------------------------------------------------------------------
(* C1: a request whose x-hub-signature-256 header (missing included) is not *)
(* the signature of the exact request body under the configured secret is   *)
(* answered 403 and makes no outbound call.                                 *)
C1_UnsignedRejected ==
    \A q \in Requests :
            (GITHUB_WEBHOOK_SECRET # Undefined /\ ~q.rawSigned)
                => Answered(q, 403) /\ NoOutboundCall(q)

(* C2: when the REST GET of a qualifying, resolved request succeeds and the *)
(* fetched body (null as '') does not contain the checklist's first line,   *)
(* the request issues exactly one PATCH, to the url of its GET, whose body  *)
(* is the fetched body, two newlines and the whole checklist.               *)
C2_PatchAppendsChecklist ==
    \A q \in Requests :
            (/\ Qualifies(q) /\ Resolved(q) /\ GetSucceeded(q)
             /\ ChecklistReadable
             /\ ~Includes(Fetched(q), FirstLineOf(checklistFile)))
                => /\ Len(CallsOf(q, "get")) = 1
                   /\ CallsOf(q, "patch") =
                          <<[kind |-> "patch",
                             url |-> CallsOf(q, "get")[1].url,
                             auth |-> CallsOf(q, "get")[1].auth,
                             data |-> WithChecklist(Fetched(q))]>>

C2_Witness ==
    \E q \in Requests :
        /\ q.pc = "done"
        /\ Answered(q, 200)
        /\ q.issueResponse = <<"H">>
        /\ Len(CallsOf(q, "patch")) = 1
        /\ CallsOf(q, "patch")[1].data = <<"H", "\n", "\n", "C", "\n", "s">>
        /\ CallsOf(q, "patch")[1].url = RestUrl
        /\ issue.body = <<"H", "\n", "\n", "C", "\n", "s">>

(* C3: when the body the REST GET returned already contains the checklist's *)
(* first line, the request issues no PATCH.                                 *)
C3_NoPatchWhenPresent ==
    \A q \in Requests :
            (/\ GetSucceeded(q) /\ ChecklistReadable
             /\ Includes(Fetched(q), FirstLineOf(checklistFile)))
                => CallsOf(q, "patch") = <<>>

C3_Witness ==
    \E q \in Requests :
        /\ q.pc = "done"
        /\ q.issueResponse = <<"H", "C">>
        /\ checklistFile = <<"C", "\n", "s">>
        /\ CallsOf(q, "patch") = <<>>
        /\ issue.body = issue.initialBody

(* C4: whatever the requests and their interleaving, the issue body is its  *)
(* initial value or the initial value (null as '') with the checklist       *)
(* appended once after a blank line.                                        *)
C4_AppendedAtMostOnce ==
    \/ issue.body = issue.initialBody
    \/ /\ ChecklistReadable
       /\ issue.body =
              WithChecklist(IF issue.initialBody = NullText THEN <<>>
                            ELSE issue.initialBody)

(* Two requests both read the body without the checklist and both patched. *)
C4_Witness ==
    /\ LET both == {q \in Requests :
                       /\ q.pc = "done"
                       /\ q.issueResponse = <<"H">>
                       /\ Len(CallsOf(q, "patch")) = 1}
       IN  BagCardinality([q \in both |-> reqs[q]]) >= 2
    /\ issue.initialBody = <<"H">>
    /\ issue.body = <<"H", "\n", "\n", "C", "\n", "s">>

(* C5: a verified request whose project_node_id is absent or differs from   *)
(* the configured target is answered 200 and makes no outbound call.        *)
C5_OtherProjectSkipped ==
    \A q \in Requests :
            (/\ q.verified
             /\ q.projectNodeId = Undefined \/ q.projectNodeId # PROJECT_NODE_ID)
                => Answered(q, 200) /\ NoOutboundCall(q)

(* C6: a verified request of the target project whose action is not         *)
(* 'created' (absent included) is answered 200 and makes no outbound call.  *)
C6_OtherActionSkipped ==
    \A q \in Requests :
            (/\ q.verified
             /\ q.projectNodeId = PROJECT_NODE_ID
             /\ q.action # "created")
                => Answered(q, 200) /\ NoOutboundCall(q)

C6_Witness ==
    \E q \in Requests :
        /\ q.verified
        /\ q.projectNodeId = "PVT_target"
        /\ q.action = Undefined
        /\ q.contentNodeId = IssueNode
        /\ Answered(q, 200)
        /\ NoOutboundCall(q)

(* C7: a verified request of the target project with action 'created' and   *)
(* no content_node_id is answered 200 and makes no outbound call.           *)
C7_MissingContentSkipped ==
    \A q \in Requests :
            (Qualifies(q) /\ q.contentNodeId = Undefined)
                => Answered(q, 200) /\ NoOutboundCall(q)

C7_Witness ==
    \E q \in Requests :
        /\ Qualifies(q)
        /\ q.contentNodeId = Undefined
        /\ q.log[Len(q.log)] =
               "content_node_id not found in the webhook payload"
        /\ Answered(q, 200)

(* C8: when the resolution of a request returns null (an error list in the  *)
(* GraphQL response, or a failed call), the request is answered 200 and     *)
(* makes no REST call.                                                      *)
C8_NullResolutionEnds ==
    \A q \in Requests :
            (\/ q.issueDetails = NullDetails
             \/ q.graphql # NoOutcome /\ (q.graphql.threw \/ q.graphql.errors))
                => /\ Answered(q, 200)
                   /\ CallsOf(q, "get") = <<>>
                   /\ CallsOf(q, "patch") = <<>>

(* An error list came with the issue's node, and the handler stopped. *)
C8_Witness ==
    \E q \in Requests :
        /\ q.graphql # NoOutcome
        /\ ~q.graphql.threw
        /\ q.graphql.errors
        /\ q.graphql.node = "issue"
        /\ q.issueDetails = NullDetails
        /\ Answered(q, 200)
        /\ Len(q.calls) = 1

(* C9: a handled request is answered 403 only when its signature does not   *)
(* match and 200 in every other case, whatever its outbound calls did.      *)
C9_Only403Or200 ==
    \A q \in Requests :
            q.pc \in {"done", "threw"}
                => /\ Len(q.responses) = 1
                   /\ q.responses[1].status \in {200, 403}
                   /\ q.responses[1].status = 403 => ~q.rawSigned
                   /\ q.rawSigned => q.responses[1].status = 200

(* C10: when the resolved issue url lacks a path segment, nothing is thrown *)
(* out of updateIssueBody or the handler, and the response is 200.          *)
C10_MalformedUrlSwallowed ==
    \A q \in Requests :
            (Resolved(q) /\ Len(Split(q.issueDetails.url, "/")) < 7)
                => /\ q.pc \in {"get", "done"}
                   /\ q.pc = "done" => Answered(q, 200)

C10_Witness ==
    \E q \in Requests :
        /\ q.issueDetails \notin {NoDetails, NullDetails}
        /\ q.issueDetails.url = ShortUrl
        /\ q.pc = "done"
        /\ q.log[Len(q.log)] = "Error updating the issue:"
        /\ Answered(q, 200)

(* The REST calls of a request, in the order they were sent. *)
RestCallsOf(q) == SelectSeq(q.calls, LAMBDA c : c.kind \in {"get", "patch"})

(* C11 as stated: for an issue url of the shape                             *)
(* https://api.github.com/repos/{owner}/{repo}/issues/{number}, the GET and *)
(* the PATCH of updateIssueBody both go to that same address.               *)
C11_ApiShapeExtracted ==
    \A q \in Requests :
            (Resolved(q) /\ q.issueDetails.url = ApiUrl)
                => /\ Len(CallsOf(q, "get")) = 1
                   /\ \A i \in 1..Len(RestCallsOf(q)) :
                          RestCallsOf(q)[i].url = ApiUrl

(* C11, amended: for an issue url of the shape                              *)
(* https://github.com/{owner}/{repo}/issues/{number}, the positional        *)
(* extraction yields that owner, repo and number, and the GET and the PATCH *)
(* both go to https://api.github.com/repos/{owner}/{repo}/issues/{number}.  *)
C11_HtmlShapeExtracted ==
    \A q \in Requests :
            (Resolved(q) /\ q.issueDetails.url = HtmlUrl)
                => /\ Len(CallsOf(q, "get")) = 1
                   /\ \A i \in 1..Len(RestCallsOf(q)) :
                          RestCallsOf(q)[i].url = ApiUrl

C11_Witness ==
    \E q \in Requests :
        /\ Resolved(q) /\ q.issueDetails.url = HtmlUrl
        /\ Len(RestCallsOf(q)) = 2
        /\ RestCallsOf(q)[1].kind = "get" /\ RestCallsOf(q)[1].url = ApiUrl
        /\ RestCallsOf(q)[2].kind = "patch" /\ RestCallsOf(q)[2].url = ApiUrl

(* A step of the request failed: an outbound call or the file read. *)
Failed(q) ==
    \E i \in 1..Len(q.log) :
        q.log[i] \in {"Error during GraphQL request:",
                      "Error fetching issue details:",
                      "Error updating the issue:",
                      "Error reading checklist file:"}

(* C12: a request sends at most one GraphQL POST, one REST GET and one REST *)
(* PATCH; once a step of it has failed the request is finished, and a       *)
(* finished request stays as it is: no call is sent again, none is queued.  *)
C12_AtMostOnce ==
    /\ [](\A q \in Requests :
            /\ \A kind \in {"graphql", "get", "patch"} :
                   Len(CallsOf(q, kind)) <= 1
            /\ Failed(q) => q.pc = "done")
    /\ [][\A q \in Requests :
              q.pc = "done" => CopiesIn(q, reqs') >= CopiesIn(q, reqs)]_vars

C12_Witness ==
    \E q \in Requests :
        /\ Len(q.calls) = 3
        /\ q.log[Len(q.log)] = "Error updating the issue:"
        /\ q.pc = "done"

(* The handler of the request has left the code of app.post('/webhook'). *)
Finished(q) == q.pc \notin {"graphql", "get", "patch"}

(* C13: a POST /webhook request whose outbound calls have all returned has  *)
(* received its response, 403 or 200, and no request ever has more than one *)
(* response.                                                                *)
C13_RunsToCompletion ==
    \A q \in Requests :
        /\ Len(q.responses) <= 1
        /\ Finished(q) => Answered(q, 403) \/ Answered(q, 200)

(* Every configuration value the module reads from process.env is set. *)
Configured ==
    /\ GITHUB_WEBHOOK_SECRET # Undefined
    /\ GITHUB_TOKEN # Undefined
    /\ PROJECT_NODE_ID # Undefined

(* C14: with any of GITHUB_WEBHOOK_SECRET, GITHUB_TOKEN, PROJECT_NODE_ID    *)
(* unset the server never comes to accept requests, and handles none.       *)
C14_StartsOnlyConfigured ==
    (listening \/ reqs # EmptyBag) => Configured

(* C15: nothing serialises the requests on one issue: whenever two         *)
(* requests have both fetched the same body without the checklist, both     *)
(* send a PATCH, each with that body and the checklist.  (The claim is the  *)
(* existence of such a pair: C15_Witness.)                                  *)
C15_ConcurrentBothPatch ==
    \A q1 \in Requests : \A q2 \in Requests :
        (/\ q1 # q2 \/ CopiesIn(q1, reqs) >= 2
         /\ GetSucceeded(q1) /\ GetSucceeded(q2)
         /\ Fetched(q1) = Fetched(q2)
         /\ ChecklistReadable
         /\ ~Includes(Fetched(q1), FirstLineOf(checklistFile)))
            => /\ Len(CallsOf(q1, "patch")) = 1
               /\ Len(CallsOf(q2, "patch")) = 1
               /\ CallsOf(q1, "patch")[1].data = WithChecklist(Fetched(q1))
               /\ CallsOf(q2, "patch")[1].data = WithChecklist(Fetched(q1))

(* Both GETs returned the body without the checklist before either PATCH    *)
(* was applied, and both PATCHes are in flight.                             *)
C15_Witness ==
    /\ ChecklistReadable
    /\ issue.body = issue.initialBody
    /\ ~Includes(OrEmpty(issue.body), FirstLineOf(checklistFile))
    /\ LET racing == {q \in Requests :
                         /\ q.pc = "patch"
                         /\ q.issueResponse = issue.initialBody
                         /\ Len(CallsOf(q, "patch")) = 1}
       IN  BagCardinality([q \in racing |-> reqs[q]]) = 2

(* The kinds of the calls of a request, in the order they were sent. *)
KindsOf(q) == [i \in 1..Len(q.calls) |-> q.calls[i].kind]

CallOrder == <<"graphql", "get", "patch">>

(* C16: within a request the order is verify, filter, GraphQL resolve, REST *)
(* GET, REST PATCH, response.  A call is sent only by a verified request    *)
(* that passed the filters; the GET only after the resolution returned a    *)
(* non-null result with a non-empty url; the PATCH only after the GET       *)
(* succeeded; and the response of a request that went to the resolver only  *)
(* after the resolution and any update it started have finished.            *)
C16_FixedOrder ==
    \A q \in Requests :
        /\ Len(q.calls) <= 3
        /\ \A i \in 1..Len(q.calls) : KindsOf(q)[i] = CallOrder[i]
        /\ q.calls # <<>> => Qualifies(q) /\ Truthy(q.contentNodeId)
        /\ Len(q.calls) >= 2 => q.graphql # NoOutcome /\ Resolved(q)
        /\ Len(q.calls) = 3 => GetSucceeded(q)
        /\ (q.calls # <<>> /\ q.responses # <<>>)
               => /\ q.pc = "done"
                  /\ q.graphql # NoOutcome
                  /\ Len(q.calls) = 2
                         => \/ GetSucceeded(q)
                            \/ q.log[Len(q.log)] = "Error updating the issue:"
                  /\ Len(q.calls) = 3
                         => q.log[Len(q.log)] \in
                                {"Issue updated successfully with checklist!",
                                 "Error updating the issue:"}

C16_Witness ==
    \E q \in Requests :
        /\ KindsOf(q) = CallOrder
        /\ Answered(q, 200)
        /\ q.log[Len(q.log)] = "Issue updated successfully with checklist!"

(* All PATCH calls sent so far, by any request. *)
PatchesSent ==
    LET patching == {q \in Requests : CallsOf(q, "patch") # <<>>}
    IN  BagCardinality([q \in patching |-> reqs[q]])

(* C17: every body a PATCH writes contains the checklist's first line, so a *)
(* request whose GET returns a body written by an earlier PATCH sends no    *)
(* PATCH: the same event handled twice in sequence gives one PATCH.         *)
C17_SecondRunNoPatch ==
    \A q \in Requests :
        /\ \A i \in 1..Len(CallsOf(q, "patch")) :
               Includes(CallsOf(q, "patch")[i].data,
                        FirstLineOf(checklistFile))
        /\ (/\ GetSucceeded(q) /\ ChecklistReadable
            /\ Fetched(q) = WithChecklist(OrEmpty(issue.initialBody)))
               => CallsOf(q, "patch") = <<>>

(* Two requests handled one after the other: the first patched, the second  *)
(* fetched the patched body and finished without a PATCH.                   *)
C17_Witness ==
    /\ PatchesSent = 1
    /\ BagCardinality(reqs) = 2
    /\ issue.body # issue.initialBody
    /\ \A q \in Requests : q.pc = "done" /\ GetSucceeded(q)
    /\ \E q \in Requests :
           Fetched(q) = issue.body /\ CallsOf(q, "patch") = <<>>

(* The GraphQL call returned a response without an error list. *)
CleanResponse(q) ==
    /\ q.graphql # NoOutcome
    /\ ~q.graphql.threw
    /\ ~q.graphql.errors

(* C18: getIssueDetails never raises.  It returns null when the call fails, *)
(* when the response has an error list and when no node matches, and an     *)
(* object with url and body when a node matches; when that object has no    *)
(* url (the node is no Issue) the handler makes no REST call.               *)
C18_ResolverTotal ==
    \A q \in Requests :
        q.graphql # NoOutcome
            => /\ q.pc # "threw"
               /\ q.issueDetails # NoDetails
               /\ (~CleanResponse(q) \/ q.graphql.node = "null")
                      <=> q.issueDetails = NullDetails
               /\ q.issueDetails # NullDetails
                      => /\ DOMAIN q.issueDetails = {"url", "body"}
                         /\ q.graphql.node = "issue"
                                => q.issueDetails.url = issue.url
                         /\ q.issueDetails.url \in {UndefinedText, NullText, <<>>}
                                => /\ RestCallsOf(q) = <<>>
                                   /\ Answered(q, 200)

C18_Witness ==
    \E q \in Requests :
        /\ CleanResponse(q) /\ q.graphql.node = "empty"
        /\ q.issueDetails = [url |-> UndefinedText, body |-> UndefinedText]
        /\ KindsOf(q) = <<"graphql">>
        /\ Answered(q, 200)

(* C19: when the checklist file cannot be read, no PATCH is sent, the body *)
(* of the issue stays as it was, and the request is answered 200.          *)
C19_UnreadableChecklistNoPatch ==
    ~ChecklistReadable
        => /\ issue.body = issue.initialBody
           /\ \A q \in Requests :
                  /\ CallsOf(q, "patch") = <<>>
                  /\ GetSucceeded(q) => Answered(q, 200)

C19_Witness ==
    /\ ~ChecklistReadable
    /\ \E q \in Requests :
           /\ GetSucceeded(q)
           /\ KindsOf(q) = <<"graphql", "get">>
           /\ \E i \in 1..Len(q.log) :
                  q.log[i] = "Error reading checklist file:"
           /\ Answered(q, 200)

(* The PATCH calls that follow from the GET call, the body it returned and  *)
(* the checklist file, and from nothing else.                               *)
PatchFor(get, fetched) ==
    IF ChecklistReadable /\ ~Includes(fetched, FirstLineOf(checklistFile))
    THEN <<[kind |-> "patch", url |-> get.url, auth |-> get.auth,
            data |-> WithChecklist(fetched)]>>
    ELSE <<>>

(* C20: whether a request sends a PATCH, and with what body, is determined  *)
(* by the body its own GET returned and the checklist file; the body the    *)
(* GraphQL resolution returned has no influence on the REST calls.          *)
C20_GraphqlBodyIgnored ==
    \A q \in Requests :
        GetSucceeded(q)
            => /\ Len(CallsOf(q, "get")) = 1
               /\ CallsOf(q, "patch") =
                      PatchFor(CallsOf(q, "get")[1], Fetched(q))

(* The GraphQL resolution and the GET of one request returned different     *)
(* bodies (another request patched the issue in between).                   *)
C20_Witness ==
    \E q \in Requests :
        /\ GetSucceeded(q)
        /\ q.issueDetails.body # q.issueResponse
        /\ ~Includes(OrEmpty(q.issueDetails.body), FirstLineOf(checklistFile))
        /\ Includes(Fetched(q), FirstLineOf(checklistFile))
        /\ q.pc = "done"
        /\ CallsOf(q, "patch") = <<>>

====
